---------------------------- MODULE Spec2Model ----------------------------
(***************************************************************************)
(* A model of the k-mer feature core of Snekmer:                           *)
(*   snekmer/vectorize.py      KmerBasis, _generate, KmerSet, KmerVec,     *)
(*                             reduce, make_feature_matrix                 *)
(*   kmerfeatures/transform.py vectorize_string and its helpers            *)
(*   snekmer/score.py          feature_class_probabilities,                *)
(*                             apply_feature_probabilities                 *)
(*   kmerfeatures/score.py     feature_class_probabilities (older package) *)
(*   kmerfeatures/features.py  define_feature_space                        *)
(*                                                                         *)
(* A Python str is a sequence of one-character strings, a list is a        *)
(* sequence, a dict is the sequence of its (key, value) pairs in insertion *)
(* order.  Python indexes from 0, TLA+ from 1: an index written i in the   *)
(* source is i + 1 here.  A float is the exact rational it stands for, a   *)
(* pair <<numerator, denominator>> kept in lowest terms.                   *)
(*                                                                         *)
(* Ten specifications share the variables; each leaves the variables of    *)
(* the other components at their initial values:                           *)
(*   SpecBasis  _generate / KmerSet                                        *)
(*   SpecKmer   KmerVec                                                    *)
(*   SpecString vectorize_string                                           *)
(*   SpecAlign  KmerBasis.set_basis / KmerBasis.transform                  *)
(*   SpecScore  feature_class_probabilities (both packages)                *)
(*   SpecApply  apply_feature_probabilities                                *)
(*   SpecReduce reduce / map_characters                                    *)
(*   SpecMatrix make_feature_matrix                                        *)
(*   SpecNonPositiveK  the vectorizers with k <= 0                         *)
(*   SpecFeatureSpace  define_feature_space                                *)
(***************************************************************************)
EXTENDS Integers, Sequences, FiniteSets, TLC

VARIABLES
    \* ---- KmerSet / KmerVec / vectorize_string -------------------------
    alphabet,      \* KmerVec.alphabet: the alphabet's identifier
    k,             \* KmerVec.k
    iter_order,    \* the order in which this process iterates char_set
    kmer_set,      \* KmerVec.kmer_set: [defined, arg, kmerlist]
    op,            \* the operation that ran last
    sequence,      \* its input sequence
    kmers,         \* the k-mers _kmer_gen yielded, in order
    kmer2count,    \* Counter(kmers)
    outcome,       \* "ok" or the exception the operation raised
    vector,        \* the value the operation returned
    \* ---- kmerfeatures vectorize_string --------------------------------
    vs_args,       \* the arguments of the last vectorize_string call
    vs_ret,        \* [outcome, results, value]: what the call did
    \* ---- KmerBasis -----------------------------------------------------
    basis,         \* KmerBasis.basis
    basis_order,   \* KmerBasis.basis_order: index -> kmer
    t_vector,      \* transform's vector argument: its rows
    t_ndim,        \* 1 for a 1-D vector, 2 for an (m, n) array
    t_vector_basis,\* transform's vector_basis argument
    t_outcome,     \* "none", "ok" or the exception transform raised
    t_result,      \* the rows transform returned
    \* ---- feature_class_probabilities ----------------------------------
    feature_matrix,\* rows = kmers, columns = sequences
    labels,        \* one label per column
    method,        \* the scoring method asked for
    bg,            \* the background vector (<<>> is None)
    s_impl,        \* "none", "snekmer" or "kmerfeatures": which package ran
    s_outcome,     \* "none", "ok" or the exception raised
    s_error,       \* which raise statement (or failing expression) ended the call
    s_stage,       \* how far the call got: "validate", "score" or "return"
    results,       \* label -> [count, probability, score], per kmer row
    \* ---- apply_feature_probabilities ----------------------------------
    a_matrix,      \* feature_matrix: rows = kmers, columns = sequences
    a_scores,      \* scores: one per kmer
    a_outcome,     \* "none", "ok" or the exception raised
    a_totals,      \* score_totals, the array returned
    \* ---- reduce / map_characters ---------------------------------------
    r_alphabet,    \* the alphabet's identifier
    r_impl,        \* "none", "snekmer" (reduce) or "kmerfeatures" (map_characters)
    r_input,       \* the sequence passed in
    r_output,      \* the sequence returned
    r_calls,       \* 0, 1, or 2 when the input was the previous call's output
    \* ---- make_feature_matrix ------------------------------------------
    m_vecs,        \* vecs: per sequence, the k-mers that occur in it
    m_min_filter,  \* the min_filter argument
    m_max_filter,  \* the max_filter argument
    m_outcome,     \* "none" or "ok"
    m_result,      \* result: one row per sequence, one column per k-mer
    m_kmerlist,    \* kmerlist: the k-mer order returned
    \* ---- define_feature_space ------------------------------------------
    f_sequence_dict,  \* sequence_dict: (seq_id, sequence) items, in order
    f_kmer,           \* the kmer argument
    f_map_function,   \* the map_function argument
    f_min_rep_thresh, \* min_rep_thresh, a rational <<n, d>>
    f_outcome,        \* "none", "ok" or the exception raised
    f_filter_dict     \* filter_dict, the dict returned

kmerVars  == <<alphabet, k, iter_order, kmer_set, op, sequence,
               kmers, kmer2count, outcome, vector>>
strVars   == <<vs_args, vs_ret>>
alignVars == <<basis, basis_order, t_vector, t_ndim, t_vector_basis,
               t_outcome, t_result>>
scoreVars == <<feature_matrix, labels, method, bg, s_impl, s_outcome, s_error,
               s_stage, results>>
applyVars  == <<a_matrix, a_scores, a_outcome, a_totals>>
reduceVars == <<r_alphabet, r_impl, r_input, r_output, r_calls>>
matrixVars == <<m_vecs, m_min_filter, m_max_filter, m_outcome, m_result, m_kmerlist>>
featureVars == <<f_sequence_dict, f_kmer, f_map_function, f_min_rep_thresh,
                 f_outcome, f_filter_dict>>
vars      == <<kmerVars, strVars, alignVars, scoreVars, applyVars, reduceVars,
               matrixVars, featureVars>>

(***************************************************************************)
(* Bounds of the model.                                                    *)
(***************************************************************************)
MaxK        == 2    \* k ranges over 1..MaxK
MaxSeqLen   == 5    \* input sequences have at most this many characters
MaxBasisLen == 2    \* bases and vectors have at most this many k-mers
MaxCount    == 2    \* the entries of a feature matrix are 0..MaxCount

(***************************************************************************)
(* Generic helpers for Python values.                                      *)
(***************************************************************************)
Range(s) == {s[i] : i \in 1..Len(s)}

IsInjective(s) == \A i, j \in 1..Len(s) : s[i] = s[j] => i = j

Min(a, b) == IF a < b THEN a ELSE b

RECURSIVE Pow(_, _)
Pow(b, e) == IF e = 0 THEN 1 ELSE b * Pow(b, e - 1)

RECURSIVE SeqSum(_)
SeqSum(s) == IF s = <<>> THEN 0 ELSE Head(s) + SeqSum(Tail(s))

\* All sequences over S of length 0..n.
SeqsUpTo(S, n) == UNION {[1..m -> S] : m \in 0..n}

\* All orders in which the elements of the finite set S can be listed.
Perms(S) == {p \in [1..Cardinality(S) -> S] : Range(p) = S}

\* Python's s[a:b] for 0 <= a: a negative end counts from the end of s (and
\* not below 0), any other is clamped to len(s); the slice is empty when the
\* end is not after a.
PySlice(s, a, b) ==
    LET stop == IF b < 0
                THEN (IF Len(s) + b < 0 THEN 0 ELSE Len(s) + b)
                ELSE Min(b, Len(s))
    IN  SubSeq(s, a + 1, stop)

\* dict lookups on a sequence of <<key, value>> pairs.
DictKeys(d) == {d[i][1] : i \in 1..Len(d)}
DictGet(d, key, default) ==
    IF key \in DictKeys(d)
    THEN d[CHOOSE i \in 1..Len(d) : d[i][1] = key][2]
    ELSE default
\* d[key] += 1, inserting key with 0 first when it is missing.
DictIncr(d, key) ==
    IF key \in DictKeys(d)
    THEN [i \in 1..Len(d) |-> IF d[i][1] = key THEN <<key, d[i][2] + 1>> ELSE d[i]]
    ELSE Append(d, <<key, 1>>)

(***************************************************************************)
(* The alphabet registry (snekmer/alphabet.py): an alphabet maps source    *)
(* characters to class characters; get_alphabet_keys is its class set.     *)
(***************************************************************************)
Chars == {"A", "C", "G", "X"}

Alphabets == {"AC", "ACG", "RED"}

get_alphabet(a) ==
    CASE a = "AC"  -> [c \in {"A", "C"} |-> c]
      [] a = "ACG" -> [c \in {"A", "C", "G"} |-> c]
      [] a = "RED" -> [c \in {"A", "C", "G"} |-> IF c = "G" THEN "G" ELSE "A"]

get_alphabet_keys(a) == {get_alphabet(a)[c] : c \in DOMAIN get_alphabet(a)}

\* The canonical (sorted) order of characters, as Python compares str.
CharRank(c) == CASE c = "A" -> 1 [] c = "C" -> 2 [] c = "G" -> 3 [] c = "X" -> 4

SortedChars(S) ==
    [i \in 1..Cardinality(S) |->
        CHOOSE c \in S : Cardinality({d \in S : CharRank(d) < CharRank(c)}) = i - 1]

(***************************************************************************)
(* _generate: itertools.product(alphabet, repeat=k), each tuple joined.    *)
(* `order` is the order in which the set `alphabet` is iterated.  The      *)
(* product runs the last position fastest, so the tuple at 0-based         *)
(* position i has, at position j of k, digit j of i written in base n.     *)
(***************************************************************************)
\* A faulty variant of _generate: itertools.permutations in place of product, so no
\* tuple repeats a character.
generate_permutations(order, kk) ==
    LET n == Len(order)
    IN  SelectSeq([i \in 1..Pow(n, kk) |->
                      [j \in 1..kk |-> order[(((i - 1) \div Pow(n, kk - j)) % n) + 1]]],
                  IsInjective)

_generate(order, kk) ==
    LET n == Len(order)
    IN  [i \in 1..Pow(n, kk) |->
            [j \in 1..kk |-> order[(((i - 1) \div Pow(n, kk - j)) % n) + 1]]]

(***************************************************************************)
(* KmerSet.__init__: an empty kmerlist is replaced by the full basis.      *)
(***************************************************************************)
KmerSet(order, kk, kmerlist) ==
    IF Len(kmerlist) = 0 THEN _generate(order, kk) ELSE kmerlist

(***************************************************************************)
(* reduce: rstrip("*"), then str.translate with the alphabet's map.        *)
(* translate replaces the characters the map has and keeps every other.    *)
(***************************************************************************)
\* A faulty variant of rstrip_star: one trailing "*" at most is removed.
rstrip_one_star(s) ==
    IF s # <<>> /\ s[Len(s)] = "*" THEN SubSeq(s, 1, Len(s) - 1) ELSE s

RECURSIVE rstrip_star(_)
rstrip_star(s) ==
    IF s # <<>> /\ s[Len(s)] = "*" THEN rstrip_star(SubSeq(s, 1, Len(s) - 1)) ELSE s

translate(s, alphabet_map) ==
    [i \in 1..Len(s) |-> IF s[i] \in DOMAIN alphabet_map THEN alphabet_map[s[i]] ELSE s[i]]

reduce(s, a) == translate(rstrip_star(s), get_alphabet(a))

(***************************************************************************)
(* KmerVec._kmer_gen: the windows sequence[i : i + k], i = 0 .. n - 1 with *)
(* n = len(sequence) - k + 1, that lie inside char_set.                    *)
(***************************************************************************)
RECURSIVE kmer_gen_from(_, _, _, _, _)
kmer_gen_from(s, kk, char_set, i, n) ==
    IF i < n
    THEN LET kmer == PySlice(s, i, i + kk)
         IN  (IF Range(kmer) \subseteq char_set THEN <<kmer>> ELSE <<>>)
             \o kmer_gen_from(s, kk, char_set, i + 1, n)
    ELSE <<>>

\* A faulty variant of _kmer_gen: n = len(sequence) - k, which drops the last window.
kmer_gen_short(s, kk, char_set) == kmer_gen_from(s, kk, char_set, 0, Len(s) - kk)

_kmer_gen(s, kk, char_set) == kmer_gen_from(s, kk, char_set, 0, Len(s) - kk + 1)

\* collections.Counter(list): key -> number of occurrences, keys in the
\* order of their first occurrence; a missing key reads as 0.
RECURSIVE Counter(_)
Counter(list) ==
    IF list = <<>> THEN <<>>
    ELSE DictIncr(Counter(SubSeq(list, 1, Len(list) - 1)), list[Len(list)])

(***************************************************************************)
(* KmerVec.vectorize.  `vector` starts as the empty dict, so the first     *)
(* `vector[i] += kmer2count[word]` reads a missing key and raises KeyError;*)
(* the loop body never completes.  Without set_kmer_set the attribute      *)
(* kmer_set does not exist.                                                *)
(***************************************************************************)
vectorize(s, kk, char_set, ks) ==
    IF ~ks.defined
    THEN [outcome |-> "AttributeError", kmers |-> _kmer_gen(s, kk, char_set),
          kmer2count |-> Counter(_kmer_gen(s, kk, char_set)), vector |-> <<>>]
    ELSE LET ks_kmers == _kmer_gen(s, kk, char_set)
             k2c      == Counter(ks_kmers)
         IN  IF Len(ks.kmerlist) = 0
             THEN [outcome |-> "ok", kmers |-> ks_kmers, kmer2count |-> k2c,
                   vector |-> <<>>]
             ELSE [outcome |-> "KeyError", kmers |-> ks_kmers, kmer2count |-> k2c,
                   vector |-> <<>>]

(***************************************************************************)
(* KmerVec.reduce_vectorize: the k-mers of the reduced sequence, as an     *)
(* array of strings (no counting).                                         *)
(***************************************************************************)
reduce_vectorize(s, kk, char_set, a) ==
    LET rv_kmers == _kmer_gen(reduce(s, a), kk, char_set)
    IN  [outcome |-> "ok", kmers |-> rv_kmers, kmer2count |-> <<>>,
         vector |-> rv_kmers]

(***************************************************************************)
(* kmerfeatures/transform.py.  A map_function is None (the string "None"   *)
(* here) or the list form (residues, map_name, mapping), named here by the *)
(* registry alphabet whose mapping it carries.                             *)
(***************************************************************************)
\* parse_map_function: only a list or a str binds `residues`; the default
\* (the function `identity`) reaches the return with it unbound.
parse_map_function(map_function) ==
    IF map_function = "None"
    THEN [outcome |-> "UnboundLocalError", mapping |-> <<>>]
    ELSE [outcome |-> "ok", mapping |-> get_alphabet(map_function)]

\* reduce_alphabet under map_characters: a character no key holds maps to
\* None and is omitted.
RECURSIVE map_characters(_, _)
map_characters(k_map, mapping) ==
    IF k_map = <<>> THEN <<>>
    ELSE (IF Head(k_map) \in DOMAIN mapping THEN <<mapping[Head(k_map)]>> ELSE <<>>)
         \o map_characters(Tail(k_map), mapping)

\* set_sequence_endpoints: `x or y` takes y when x is 0 (or False).
set_sequence_endpoints(s, kk, start, end) ==
    LET start1 == start
        end1   == IF end = 0 THEN Len(s) - kk ELSE end
        start2 == IF start1 < 0
                  THEN (IF Len(s) + start1 < 0 THEN 0 ELSE Len(s) + start1)
                  ELSE start1
    IN  <<start2, end1>>

\* str.find: the lowest 0-based index at which sub occurs in s, or -1.
Find(s, sub) ==
    LET hits == {i \in 0..(Len(s) - Len(sub)) : SubSeq(s, i + 1, i + Len(sub)) = sub}
    IN  IF hits = {} THEN -1 ELSE CHOOSE i \in hits : \A j \in hits : i <= j

\* exclude_from_string: True when some bit of `exclude` is found at an
\* index > 0.
exclude_from_string(k_string, exclude) ==
    \E b \in 1..Len(exclude) : Find(k_string, exclude[b]) > 0

\* {key: 0 for key in filter_list}
RECURSIVE ZeroDict(_)
ZeroDict(list) ==
    IF list = <<>> THEN <<>>
    ELSE LET d == ZeroDict(SubSeq(list, 1, Len(list) - 1))
             key == list[Len(list)]
         IN  IF key \in DictKeys(d) THEN d ELSE Append(d, <<key, 0>>)

\* The loop `for i in range(start, end)` of vectorize_string.
RECURSIVE vs_loop(_, _, _, _, _, _, _, _)
vs_loop(s, kk, i, end, mapping, fl, exclude, res) ==
    IF i >= end THEN res
    ELSE LET k_map    == PySlice(s, i, i + kk)
             k_string == map_characters(k_map, mapping)
             skip     == \/ Len(k_string) < kk
                         \/ (fl # <<>> /\ k_string \notin Range(fl))
                         \/ exclude_from_string(k_string, exclude)
         IN  vs_loop(s, kk, i + 1, end, mapping, fl, exclude,
                     IF skip THEN res ELSE DictIncr(res, k_string))

\* vectorize_string(sequence, k, start, end, map_function, feature_dict,
\*                  filter_list, exclude, return_dict); <<>> stands for a
\* None (or empty) feature_dict, filter_list and exclude.
vectorize_string(a) ==
    LET pmf == parse_map_function(a.map_function)
    IN  IF pmf.outcome # "ok"
        THEN [outcome |-> pmf.outcome, results |-> <<>>, value |-> <<>>]
        ELSE LET se   == set_sequence_endpoints(a.sequence, a.k, a.start, a.end)
                 res0 == IF a.filter_list # <<>> THEN ZeroDict(a.filter_list)
                         ELSE a.feature_dict
                 res  == vs_loop(a.sequence, a.k, se[1], se[2], pmf.mapping,
                                 a.filter_list, a.exclude, res0)
             IN  [outcome |-> "ok",
                  results |-> res,
                  value   |-> IF a.return_dict THEN <<>>
                              ELSE IF a.filter_list # <<>>
                              THEN [i \in 1..Len(a.filter_list) |->
                                        DictGet(res, a.filter_list[i], 0)]
                              ELSE [i \in 1..Len(res) |-> res[i][2]]]

(***************************************************************************)
(* kmerfeatures/features.py: define_feature_space(sequence_dict, kmer,     *)
(* map_function, start, end, residues, min_rep_thresh).  A dict is its     *)
(* items in insertion order; min_rep_thresh is a rational <<n, d>>.        *)
(***************************************************************************)
\* The parameters of vectorize_string's signature.
vectorize_string_parameters ==
    {"sequence", "k", "start", "end", "map_function", "feature_dict",
     "filter_list", "exclude", "return_dict", "verbose", "log_file"}

\* The keywords define_feature_space passes to vectorize_string.
define_feature_space_keywords ==
    {"sequence", "kmer", "map_function", "feature_dict", "start", "end",
     "residues", "return_dict"}

\* A call by keyword raises TypeError when a keyword is no parameter of the
\* function called.
unexpected_keyword(keywords, parameters) == keywords \ parameters # {}

\* for seq_id, seq in sequence_dict.items():
\*     feature_dict = vectorize_string(sequence=seq, kmer=kmer, ...)
\* No k is passed, so a call that were bound would run with the default k=3;
\* start=None and end=None are the 0 of `start or 0` and `end or ...`.
RECURSIVE feature_space_loop(_, _, _, _)
feature_space_loop(items, i, map_function, feature_dict) ==
    IF i > Len(items)
    THEN [outcome |-> "ok", feature_dict |-> feature_dict]
    ELSE IF unexpected_keyword(define_feature_space_keywords,
                               vectorize_string_parameters)
    THEN [outcome |-> "TypeError", feature_dict |-> feature_dict]
    ELSE LET r == vectorize_string(
                      [sequence |-> items[i][2], k |-> 3, start |-> 0, end |-> 0,
                       map_function |-> map_function,
                       feature_dict |-> feature_dict, filter_list |-> <<>>,
                       exclude |-> <<>>, return_dict |-> TRUE])
         IN  IF r.outcome # "ok"
             THEN [outcome |-> r.outcome, feature_dict |-> feature_dict]
             ELSE feature_space_loop(items, i + 1, map_function, r.results)

\* The threshold: a min_rep_thresh strictly between 0 and 1 is that share of
\* the number of keys; a threshold that is 0 keeps every key; otherwise the
\* keys whose count is >= the threshold are kept.
threshold_filter(feature_dict, min_rep_thresh) ==
    LET n   == min_rep_thresh[1]
        d   == min_rep_thresh[2]
        thr == IF n < d /\ n > 0 THEN <<Len(feature_dict) * n, d>> ELSE <<n, d>>
    IN  IF thr[1] # 0
        THEN SelectSeq(feature_dict, LAMBDA e : e[2] * thr[2] >= thr[1])
        ELSE feature_dict

define_feature_space(sequence_dict, kmer, map_function, min_rep_thresh) ==
    LET l == feature_space_loop(sequence_dict, 1, map_function, <<>>)
    IN  IF l.outcome # "ok"
        THEN [outcome |-> l.outcome, filter_dict |-> <<>>]
        ELSE LET filter_dict == threshold_filter(l.feature_dict, min_rep_thresh)
             IN  IF Len(filter_dict) = 0
                 THEN [outcome |-> "ValueError", filter_dict |-> <<>>]
                 ELSE [outcome |-> "ok", filter_dict |-> filter_dict]

(***************************************************************************)
(* KmerBasis (snekmer/vectorize.py).  A vector argument is held as its     *)
(* rows: a 1-D vector is one row (ndim = 1), an (m, n) array is m rows of  *)
(* n entries (ndim = 2).                                                   *)
(***************************************************************************)
\* set_basis: basis_order = {i: k for i, k in enumerate(basis)}
set_basis_order(b) == [i \in 0..(Len(b) - 1) |-> b[i + 1]]

\* vector.shape[1], or len(vector) when the array is 1-D: either way the
\* length of a row.
vector_size(v, ndim) == Len(v[1])

\* A faulty variant of shape_mismatch: only a vector that is too short is refused.
shape_mismatch_short_only(v, ndim, vb) == vector_size(v, ndim) < Len(vb)

\* if vector_size != len(vector_basis): raise ValueError
shape_mismatch(v, ndim, vb) == vector_size(v, ndim) # Len(vb)

\* vector_basis_order = {k: i if k in self.basis else nan ...}: the keys are
\* the k-mers of vector_basis; a k-mer listed twice keeps its last index.
vector_basis_keys(vb) == Range(vb)

\* A faulty variant of vector_basis_index: the index counted from the end of
\* vector_basis.
vector_basis_index_reversed(vb, kmer) ==
    Len(vb) - (CHOOSE i \in 1..Len(vb) : vb[i] = kmer /\ \A j \in 1..Len(vb) : vb[j] = kmer => j <= i)

vector_basis_index(vb, kmer) ==
    (CHOOSE i \in 1..Len(vb) : vb[i] = kmer /\ \A j \in 1..Len(vb) : vb[j] = kmer => j <= i) - 1

\* A faulty variant of transform_self: transform refits the object to the
\* basis of the vector it was given.
transform_self_refit(b, bo, vb) == [basis |-> vb, basis_order |-> set_basis_order(vb)]

\* The fields of the KmerBasis after transform(vector, vector_basis):
\* transform reads self.basis and self.basis_order and assigns neither.
transform_self(b, bo, vb) == [basis |-> b, basis_order |-> bo]

\* KmerBasis.transform(vector, vector_basis) on a KmerBasis whose fields
\* are b (basis) and bo (basis_order).
transform(b, bo, v, ndim, vb) ==
    IF shape_mismatch(v, ndim, vb)
    THEN [outcome |-> "ValueError", result |-> <<>>]
    ELSE IF \E i \in 0..(Len(b) - 1) : bo[i] \notin vector_basis_keys(vb)
    THEN [outcome |-> "KeyError", result |-> <<>>]
    ELSE LET i_convert == [i \in 1..Len(b) |-> vector_basis_index(vb, bo[i - 1])]
         IN  [outcome |-> "ok",
              result  |-> [r \in 1..Len(v) |->
                              [i \in 1..Len(b) |-> v[r][i_convert[i] + 1]]]]


(***************************************************************************)
(* Exact rationals for the floats of the scoring code: <<n, d>> with       *)
(* d > 0, in lowest terms.                                                 *)
(***************************************************************************)
Abs(x) == IF x < 0 THEN -x ELSE x

RECURSIVE GCD(_, _)
GCD(a, b) == IF b = 0 THEN a ELSE GCD(b, a % b)

Rat(n, d) ==
    LET g == GCD(Abs(n), d)
    IN  IF n = 0 THEN <<0, 1>> ELSE <<n \div g, d \div g>>

RatAdd(x, y) == Rat(x[1] * y[2] + y[1] * x[2], x[2] * y[2])
RatSub(x, y) == Rat(x[1] * y[2] - y[1] * x[2], x[2] * y[2])
RatMul(x, y) == Rat(x[1] * y[1], x[2] * y[2])

RECURSIVE RatSum(_)
RatSum(s) == IF s = <<>> THEN <<0, 1>> ELSE RatAdd(Head(s), RatSum(Tail(s)))

(***************************************************************************)
(* Labels, and np.unique(labels): the distinct labels in sorted order.     *)
(***************************************************************************)
Labels == {"fam", "other", "third"}

LabelRank(l) == CASE l = "fam" -> 1 [] l = "other" -> 2 [] l = "third" -> 3

np_unique(ls) ==
    LET S == Range(ls)
    IN  [i \in 1..Cardinality(S) |->
            CHOOSE l \in S :
                Cardinality({m \in S : LabelRank(m) < LabelRank(l)}) = i - 1]

\* len(feature_matrix.T): the number of columns.
n_columns(fm) == IF fm = <<>> THEN 0 ELSE Len(fm[1])

(***************************************************************************)
(* snekmer/score.py                                                        *)
(***************************************************************************)
\* A faulty variant of _binarize: the counts are kept as they are.
binarize_keep_counts(fm) == fm

\* _binarize: (feature_matrix > 0) * 1.0
_binarize(fm) ==
    [r \in 1..Len(fm) |-> [c \in 1..Len(fm[r]) |-> IF fm[r][c] > 0 THEN 1 ELSE 0]]

\* The sum over a row of (kmer == 1) * label_match * 1.
RECURSIVE match_sum(_, _)
match_sum(kmer, label_match) ==
    IF kmer = <<>> THEN 0
    ELSE (IF Head(kmer) = 1 /\ Head(label_match) THEN 1 ELSE 0)
         + match_sum(Tail(kmer), Tail(label_match))

\* _kmer_presence_probability(feature_matrix, label_match, weight)
_kmer_presence_probability(fm, label_match, weight) ==
    LET bin == _binarize(fm)
    IN  [presence    |-> [r \in 1..Len(bin) |-> match_sum(bin[r], label_match)],
         probability |-> [r \in 1..Len(bin) |->
                             RatMul(Rat(match_sum(bin[r], label_match), 1), weight)]]

\* A faulty variant of n_sequences: the counts listed in the reverse of np.unique's
\* order, so a label is paired with another label's count.
n_sequences_swapped(ls) ==
    LET u == np_unique(ls)
    IN  [i \in 1..Len(u) |->
            Cardinality({c \in 1..Len(ls) : ls[c] = u[Len(u) + 1 - i]})]

\* n_sequences: for each label of np.unique(labels), in that order, the
\* number of columns that carry it.
n_sequences(ls) ==
    LET u == np_unique(ls)
    IN  [i \in 1..Len(u) |-> Cardinality({c \in 1..Len(ls) : ls[c] = u[i]})]

\* The labels other than l, in np.unique order.
RECURSIVE SelectSeq2(_, _)
SelectSeq2(s, drop) ==
    IF s = <<>> THEN <<>>
    ELSE (IF Head(s) = drop THEN <<>> ELSE <<Head(s)>>) \o SelectSeq2(Tail(s), drop)

\* A faulty variant of other_labels: the first other label alone.
other_labels_first_only(u, l) == <<SelectSeq2(u, l)[1]>>

other_labels(u, l) == SelectSeq2(u, l)

\* The score of label l at row r: probability_l - weight * sum of the
\* other labels' probabilities.
default_score(prob, u, l, r, weight) ==
    RatSub(prob[l][r],
           RatMul(RatSum([j \in 1..Len(other_labels(u, l)) |->
                             prob[other_labels(u, l)[j]][r]]),
                  weight))

Methods == {"default", "bg_only", "both"}

EmptyResults == [l \in {} |-> <<>>]

\* if method not in ["default", "bg_only", "both"]: raise ValueError
invalid_method(mth) == mth \notin Methods

\* A faulty variant of missing_background: only method "both" needs a background.
missing_background_both_only(mth, bgv) == mth = "both" /\ bgv = <<>>

\* if (method in ["bg_only", "both"]) and (bg is None): raise ValueError
\* (bg = <<>> stands for None)
missing_background(mth, bgv) == mth \in {"bg_only", "both"} /\ bgv = <<>>

\* A faulty variant of labels_mismatch: only too few labels are refused.
labels_mismatch_short_only(fm, ls) == Len(ls) < n_columns(fm)

\* if len(feature_matrix.T) != len(labels): raise ValueError
labels_mismatch(fm, ls) == n_columns(fm) # Len(ls)

\* What a call that raises leaves behind: the exception, the raise statement
\* it came from, how far the call had got, and no table.
Raised(exc, err, stg) ==
    [outcome |-> exc, error |-> err, stage |-> stg, results |-> EmptyResults]

\* feature_class_probabilities(feature_matrix, labels, kmers=None, method, bg);
\* bg = <<>> stands for None.  The validations run first, in the order of the
\* code; then presence and probability are computed for every label; then
\* the scores, whose weight 1 / (len(np.unique(labels)) - 1) divides by zero
\* when there is one distinct label.  Neither method nor bg is read again
\* after the validations.
feature_class_probabilities(fm, ls, mth, bgv) ==
    IF invalid_method(mth)
    THEN Raised("ValueError", "method", "validate")
    ELSE IF missing_background(mth, bgv)
    THEN Raised("ValueError", "background", "validate")
    ELSE IF labels_mismatch(fm, ls)
    THEN Raised("ValueError", "shapes", "validate")
    ELSE LET u    == np_unique(ls)
             ns   == n_sequences(ls)
             pp   == [i \in 1..Len(u) |->
                         _kmer_presence_probability(
                             fm, [c \in 1..Len(ls) |-> ls[c] = u[i]], Rat(1, ns[i]))]
             idx(l) == CHOOSE i \in 1..Len(u) : u[i] = l
             prob == [l \in Range(u) |-> pp[idx(l)].probability]
         IN  IF Len(u) - 1 = 0
             THEN Raised("ZeroDivisionError", "weight", "score")
             ELSE [outcome |-> "ok", error |-> "none", stage |-> "return",
                   results |->
                     [l \in Range(u) |->
                        [count       |-> pp[idx(l)].presence,
                         probability |-> prob[l],
                         score       |-> [r \in 1..Len(fm) |->
                                            default_score(prob, u, l, r,
                                                          Rat(1, Len(u) - 1))]]]]

(***************************************************************************)
(* kmerfeatures/score.py: the older feature_class_probabilities(matrix,    *)
(* labels).  `presence` is kept per column (a list per row, not its sum)   *)
(* and the score subtracts the probability of the first other label only.  *)
(***************************************************************************)
kf_feature_class_probabilities(fm, ls) ==
    IF labels_mismatch(fm, ls)
    THEN Raised("ValueError", "shapes", "validate")
    ELSE LET bin  == [r \in 1..Len(fm) |->
                         [c \in 1..Len(fm[r]) |-> IF fm[r][c] > 0 THEN 1 ELSE 0]]
             u    == np_unique(ls)
             nseq(l) == Cardinality({c \in 1..Len(ls) : ls[c] = l})
             p(l, r) == [c \in 1..Len(bin[r]) |->
                            IF bin[r][c] = 1 /\ ls[c] = l THEN 1 ELSE 0]
             prob == [l \in Range(u) |->
                         [r \in 1..Len(fm) |-> Rat(SeqSum(p(l, r)), nseq(l))]]
         IN  IF Len(u) - 1 = 0
             THEN Raised("ZeroDivisionError", "weight", "score")
             ELSE [outcome |-> "ok", error |-> "none", stage |-> "return",
                   results |->
                     [l \in Range(u) |->
                        [n_sequences |-> nseq(l),
                         presence    |-> [r \in 1..Len(fm) |-> p(l, r)],
                         probability |-> prob[l],
                         score       |-> [r \in 1..Len(fm) |->
                                            RatSub(prob[l][r],
                                                   RatMul(prob[SelectSeq2(u, l)[1]][r],
                                                          Rat(1, Len(u) - 1)))]]]]

(***************************************************************************)
(* snekmer/score.py: apply_feature_probabilities(feature_matrix, scores)   *)
(* with scaler=False.  `scores * feature_matrix` is numpy's elementwise    *)
(* product with broadcasting: the one-dimensional scores are laid along    *)
(* the LAST axis of the matrix (its columns); the product is defined when  *)
(* len(scores) equals the column count or either of them is 1, and raises  *)
(* ValueError otherwise.  score_totals has one sum per row of the product. *)
(***************************************************************************)
Max(a, b) == IF a >= b THEN a ELSE b

broadcastable(n, c) == n = c \/ n = 1 \/ c = 1

score_matrix(scores, bin) ==
    LET n == Len(scores)
        c == n_columns(bin)
    IN  [i \in 1..Len(bin) |->
            [j \in 1..Max(n, c) |->
                scores[IF n = 1 THEN 1 ELSE j] * bin[i][IF c = 1 THEN 1 ELSE j]]]

apply_feature_probabilities(fm, scores) ==
    LET bin == _binarize(fm)
    IN  IF ~broadcastable(Len(scores), n_columns(bin))
        THEN [outcome |-> "ValueError", totals |-> <<>>]
        ELSE [outcome |-> "ok",
              totals  |-> [i \in 1..Len(bin) |-> SeqSum(score_matrix(scores, bin)[i])]]

(***************************************************************************)
(* snekmer/vectorize.py: make_feature_matrix(vecs).  kmerlist is           *)
(* np.unique of all the k-mers of all the collections: each distinct k-mer *)
(* once, in ascending order of str comparison; result[i, j] is 1 when      *)
(* kmerlist[j] occurs in vecs[i].                                          *)
(***************************************************************************)
\* Python's str comparison x < y.
StrLess(x, y) ==
    \/ Len(x) < Len(y) /\ SubSeq(y, 1, Len(x)) = x
    \/ \E i \in 1..Min(Len(x), Len(y)) :
          /\ CharRank(x[i]) < CharRank(y[i])
          /\ \A j \in 1..(i - 1) : x[j] = y[j]

RECURSIVE extend_all(_)
extend_all(vecs) ==
    IF vecs = <<>> THEN <<>> ELSE Head(vecs) \o extend_all(Tail(vecs))

\* A faulty variant of np_unique_str: each k-mer once, in order of first occurrence.
RECURSIVE first_seen_order(_)
first_seen_order(list) ==
    IF list = <<>> THEN <<>>
    ELSE LET rest == first_seen_order(SubSeq(list, 1, Len(list) - 1))
             x    == list[Len(list)]
         IN  IF x \in Range(rest) THEN rest ELSE Append(rest, x)

np_unique_str(list) ==
    LET S == Range(list)
    IN  [i \in 1..Cardinality(S) |->
            CHOOSE x \in S : Cardinality({y \in S : StrLess(y, x)}) = i - 1]

\* A faulty variant of make_feature_matrix: the filter is applied, and only the
\* k-mers that occur in min_filter to max_filter collections are kept.
make_feature_matrix_filtered(vecs, min_filter, max_filter) ==
    LET all  == np_unique_str(extend_all(vecs))
        n(x) == Cardinality({i \in 1..Len(vecs) : x \in Range(vecs[i])})
        keep(x) == min_filter <= n(x) /\ n(x) <= max_filter
        kmerlist == SelectSeq(all, keep)
    IN  [outcome  |-> "ok",
         result   |-> [i \in 1..Len(vecs) |->
                          [j \in 1..Len(kmerlist) |->
                              IF kmerlist[j] \in Range(vecs[i]) THEN 1 ELSE 0]],
         kmerlist |-> kmerlist]

\* min_filter and max_filter are accepted and never read ("TBD" in the code).
make_feature_matrix(vecs, min_filter, max_filter) ==
    LET kmerlist == np_unique_str(extend_all(vecs))
    IN  [outcome  |-> "ok",
         result   |-> [i \in 1..Len(vecs) |->
                          [j \in 1..Len(kmerlist) |->
                              IF kmerlist[j] \in Range(vecs[i]) THEN 1 ELSE 0]],
         kmerlist |-> kmerlist]

(***************************************************************************)
(* The inputs the operations are called with.                              *)
(***************************************************************************)
VecAlphabets == {"AC", "RED"}
SeqChars  == {"A", "C", "X"}
Sequences == SeqsUpTo(SeqChars, MaxSeqLen)

\* The bases a caller supplies: none, the full basis in canonical order, or
\* its first two k-mers.
KmerLists(a, kk) ==
    LET full == _generate(SortedChars(get_alphabet_keys(a)), kk)
    IN  {<<>>, full, SubSeq(full, 1, 2)}

KmerPool == {<<"A", "A">>, <<"A", "C">>, <<"C", "A">>}
Bases    == {b \in SeqsUpTo(KmerPool, MaxBasisLen) : IsInjective(b)}
VecValues == {0, 1, 2}
Vectors1 == {<<row>> : row \in SeqsUpTo(VecValues, MaxBasisLen)}
Vectors2 == UNION {[1..2 -> [1..n -> VecValues]] : n \in 0..MaxBasisLen}

\* Feature matrices: <<rows, columns>> is one of Shapes.
Shapes    == {<<1, 2>>, <<1, 3>>, <<2, 2>>}
ColCounts == {sh[2] : sh \in Shapes}
Matrices  == UNION {[1..sh[1] -> [1..sh[2] -> 0..MaxCount]] : sh \in Shapes}
LabelVectors == UNION {[1..c -> Labels] : c \in ColCounts}
Backgrounds(fm) == {<<>>, [r \in 1..Len(fm) |-> <<1, 2>>]}
\* The methods a caller asks for: the three the code knows and one it does not.
MethodArgs == Methods \cup {"unknown"}

\* apply_feature_probabilities: matrices of these shapes, with entries that
\* binarization changes, and one score per row.
ApplyShapes  == {<<1, 2>>, <<2, 1>>, <<2, 2>>, <<2, 3>>}
ApplyValues  == {0, MaxCount}
ApplyMatrices == UNION {[1..sh[1] -> [1..sh[2] -> ApplyValues]] : sh \in ApplyShapes}
ScoreValues  == {-1, 0, 2}
ScoresFor(fm) == [1..Len(fm) -> ScoreValues]

\* reduce: sequences with mapped, unmapped and stop characters.
ReduceChars == {"A", "C", "X", "*"}
ReduceSequences == SeqsUpTo(ReduceChars, MaxSeqLen)

\* make_feature_matrix: one or two collections of k-mers, repeats allowed.
Collections == SeqsUpTo(KmerPool, MaxBasisLen)
VecLists == {<<c>> : c \in Collections} \cup {<<c, d>> : c \in Collections, d \in Collections}
\* min_filter, max_filter: the default 1 and another value.
Filters == {1, 2}

(***************************************************************************)
(* Initial values of each component's variables.                           *)
(***************************************************************************)
KmerIdle ==
    /\ alphabet = "AC" /\ k = 1 /\ iter_order = <<"A", "C">>
    /\ kmer_set = [defined |-> FALSE, arg |-> <<>>, kmerlist |-> <<>>]
    /\ op = "none" /\ sequence = <<>> /\ kmers = <<>> /\ kmer2count = <<>>
    /\ outcome = "none" /\ vector = <<>>

NoArgs ==
    [sequence |-> <<>>, k |-> 1, start |-> 0, end |-> 0, map_function |-> "None",
     feature_dict |-> <<>>, filter_list |-> <<>>, exclude |-> <<>>,
     return_dict |-> FALSE]

StringIdle ==
    /\ vs_args = NoArgs
    /\ vs_ret = [outcome |-> "none", results |-> <<>>, value |-> <<>>]

AlignIdle ==
    /\ basis = <<>> /\ basis_order = set_basis_order(<<>>)
    /\ t_vector = <<<<>>>> /\ t_ndim = 1 /\ t_vector_basis = <<>>
    /\ t_outcome = "none" /\ t_result = <<>>

ScoreIdle ==
    /\ feature_matrix = <<>> /\ labels = <<>> /\ method = "default" /\ bg = <<>>
    /\ s_impl = "none" /\ s_outcome = "none" /\ s_error = "none"
    /\ s_stage = "none" /\ results = EmptyResults

ApplyIdle ==
    /\ a_matrix = <<>> /\ a_scores = <<>> /\ a_outcome = "none" /\ a_totals = <<>>

ReduceIdle ==
    /\ r_alphabet = "AC" /\ r_impl = "none" /\ r_input = <<>> /\ r_output = <<>>
    /\ r_calls = 0

MatrixIdle ==
    /\ m_vecs = <<>> /\ m_min_filter = 1 /\ m_max_filter = 1
    /\ m_outcome = "none" /\ m_result = <<>> /\ m_kmerlist = <<>>

FeatureIdle ==
    /\ f_sequence_dict = <<>> /\ f_kmer = 1 /\ f_map_function = "None"
    /\ f_min_rep_thresh = <<2, 1>> /\ f_outcome = "none" /\ f_filter_dict = <<>>

(***************************************************************************)
(* SpecBasis: for an alphabet and a k, the basis is generated: by          *)
(* KmerSet(alphabet, k, kmerlist) (through set_kmer_set) and by a direct   *)
(* call of _generate(get_alphabet_keys(alphabet), k).  The process         *)
(* iterates the set char_set in one order, whatever it is.                 *)
(***************************************************************************)
InitBasis ==
    /\ alphabet \in Alphabets
    /\ k \in 1..MaxK
    /\ iter_order \in Perms(get_alphabet_keys(alphabet))
    /\ kmer_set = [defined |-> FALSE, arg |-> <<>>, kmerlist |-> <<>>]
    /\ op = "none" /\ sequence = <<>> /\ kmers = <<>> /\ kmer2count = <<>>
    /\ outcome = "none" /\ vector = <<>>
    /\ StringIdle /\ AlignIdle /\ ScoreIdle
    /\ ApplyIdle /\ ReduceIdle /\ MatrixIdle /\ FeatureIdle

(***************************************************************************)
(* SpecKmer: a KmerVec(alphabet, k) is constructed; then set_kmer_set,     *)
(* vectorize and reduce_vectorize are called in any order, one call at a   *)
(* time: a call's record (op, sequence, kmers, kmer2count, outcome,        *)
(* vector) stands until the caller takes the result (ReturnKmer).          *)
(***************************************************************************)
InitKmer ==
    /\ alphabet \in VecAlphabets
    /\ k \in 1..MaxK
    /\ iter_order \in Perms(get_alphabet_keys(alphabet))
    /\ kmer_set = [defined |-> FALSE, arg |-> <<>>, kmerlist |-> <<>>]
    /\ op = "none" /\ sequence = <<>> /\ kmers = <<>> /\ kmer2count = <<>>
    /\ outcome = "none" /\ vector = <<>>
    /\ StringIdle /\ AlignIdle /\ ScoreIdle
    /\ ApplyIdle /\ ReduceIdle /\ MatrixIdle /\ FeatureIdle

\* KmerVec.set_kmer_set(kmer_set): self.kmer_set = KmerSet(alphabet, k, kmer_set)
SetKmerSet ==
    /\ op = "none"
    /\ \E kl \in KmerLists(alphabet, k) :
        /\ kmer_set' = [defined |-> TRUE, arg |-> kl,
                        kmerlist |-> KmerSet(iter_order, k, kl)]
        /\ UNCHANGED <<alphabet, k, iter_order, op, sequence, kmers, kmer2count,
                       outcome, vector, strVars, alignVars, scoreVars,
                   applyVars, reduceVars, matrixVars, featureVars>>

Vectorize ==
    /\ op = "none"
    /\ \E s \in Sequences :
        LET r == vectorize(s, k, get_alphabet_keys(alphabet), kmer_set)
        IN  /\ op' = "vectorize" /\ sequence' = s /\ kmers' = r.kmers
            /\ kmer2count' = r.kmer2count /\ outcome' = r.outcome
            /\ vector' = r.vector
            /\ UNCHANGED <<alphabet, k, iter_order, kmer_set, strVars, alignVars,
                           scoreVars,
                   applyVars, reduceVars, matrixVars, featureVars>>

ReduceVectorize ==
    /\ op = "none"
    /\ \E s \in Sequences :
        LET r == reduce_vectorize(s, k, get_alphabet_keys(alphabet), alphabet)
        IN  /\ op' = "reduce_vectorize" /\ sequence' = s /\ kmers' = r.kmers
            /\ kmer2count' = r.kmer2count /\ outcome' = r.outcome
            /\ vector' = r.vector
            /\ UNCHANGED <<alphabet, k, iter_order, kmer_set, strVars, alignVars,
                           scoreVars,
                   applyVars, reduceVars, matrixVars, featureVars>>

\* list(_generate(get_alphabet_keys(alphabet), k)): the generator, consumed.
Generate ==
    /\ op = "none"
    /\ op' = "_generate" /\ kmers' = _generate(iter_order, k) /\ outcome' = "ok"
    /\ UNCHANGED <<alphabet, k, iter_order, kmer_set, sequence, kmer2count, vector,
                   strVars, alignVars, scoreVars,
                   applyVars, reduceVars, matrixVars, featureVars>>

ReturnKmer ==
    /\ op # "none"
    /\ op' = "none" /\ sequence' = <<>> /\ kmers' = <<>> /\ kmer2count' = <<>>
    /\ outcome' = "none" /\ vector' = <<>>
    /\ UNCHANGED <<alphabet, k, iter_order, kmer_set, strVars, alignVars, scoreVars,
                   applyVars, reduceVars, matrixVars, featureVars>>

NextKmer == SetKmerSet \/ Vectorize \/ ReduceVectorize \/ ReturnKmer

SpecKmer == InitKmer /\ [][NextKmer]_vars

NextBasis == SetKmerSet \/ Generate \/ ReturnKmer

SpecBasis == InitBasis /\ [][NextBasis]_vars

(***************************************************************************)
(* SpecString: calls of kmerfeatures' vectorize_string, one at a time.     *)
(***************************************************************************)
\* The exclusion lists a caller passes: none, a one-character substring, and
\* a substring as long as a 2-mer.
ExcludeLists == {<<>>, <<<<"C">>>>, <<<<"A", "C">>>>}

StringArgs ==
    {[sequence |-> s, k |-> kk, start |-> 0, end |-> 0, map_function |-> mf,
      feature_dict |-> <<>>, filter_list |-> fl, exclude |-> ex,
      return_dict |-> FALSE] :
        s \in Sequences, kk \in 1..MaxK, mf \in {"None", "AC", "RED"},
        fl \in {<<>>, _generate(<<"A", "C">>, MaxK)}, ex \in ExcludeLists}

InitString == KmerIdle /\ StringIdle /\ AlignIdle /\ ScoreIdle
    /\ ApplyIdle /\ ReduceIdle /\ MatrixIdle /\ FeatureIdle

VectorizeString ==
    /\ vs_ret.outcome = "none"
    /\ \E a \in StringArgs :
        /\ vs_args' = a
        /\ vs_ret' = vectorize_string(a)
        /\ UNCHANGED <<kmerVars, alignVars, scoreVars,
                   applyVars, reduceVars, matrixVars, featureVars>>

ReturnString ==
    /\ vs_ret.outcome # "none"
    /\ vs_args' = NoArgs
    /\ vs_ret' = [outcome |-> "none", results |-> <<>>, value |-> <<>>]
    /\ UNCHANGED <<kmerVars, alignVars, scoreVars,
                   applyVars, reduceVars, matrixVars, featureVars>>

NextString == VectorizeString \/ ReturnString

SpecString == InitString /\ [][NextString]_vars

(***************************************************************************)
(* SpecAlign: a KmerBasis is constructed; set_basis and transform are      *)
(* called in any order, one call at a time: a transform's record stands   *)
(* until the caller takes the result (ReturnTransform).                    *)
(***************************************************************************)
InitAlign == KmerIdle /\ StringIdle /\ AlignIdle /\ ScoreIdle
    /\ ApplyIdle /\ ReduceIdle /\ MatrixIdle /\ FeatureIdle

SetBasis ==
    /\ t_outcome = "none"
    /\ \E b \in Bases :
        /\ basis' = b
        /\ basis_order' = set_basis_order(b)
        /\ UNCHANGED <<t_vector, t_ndim, t_vector_basis, t_outcome, t_result,
                       kmerVars, strVars, scoreVars,
                   applyVars, reduceVars, matrixVars, featureVars>>

Transform ==
    /\ t_outcome = "none"
    /\ \E nd \in {1, 2}, vb \in Bases :
        \E v \in (IF nd = 1 THEN Vectors1 ELSE Vectors2) :
            LET r    == transform(basis, basis_order, v, nd, vb)
                self == transform_self(basis, basis_order, vb)
            IN  /\ t_vector' = v /\ t_ndim' = nd /\ t_vector_basis' = vb
                /\ t_outcome' = r.outcome /\ t_result' = r.result
                /\ basis' = self.basis /\ basis_order' = self.basis_order
                /\ UNCHANGED <<kmerVars, strVars, scoreVars,
                   applyVars, reduceVars, matrixVars, featureVars>>

ReturnTransform ==
    /\ t_outcome # "none"
    /\ t_vector' = <<<<>>>> /\ t_ndim' = 1 /\ t_vector_basis' = <<>>
    /\ t_outcome' = "none" /\ t_result' = <<>>
    /\ UNCHANGED <<basis, basis_order, kmerVars, strVars, scoreVars,
                   applyVars, reduceVars, matrixVars, featureVars>>

NextAlign == SetBasis \/ Transform \/ ReturnTransform

SpecAlign == InitAlign /\ [][NextAlign]_vars

(***************************************************************************)
(* SpecScore: calls of feature_class_probabilities, of either package, one *)
(* at a time.                                                              *)
(***************************************************************************)
InitScore == KmerIdle /\ StringIdle /\ AlignIdle /\ ScoreIdle
    /\ ApplyIdle /\ ReduceIdle /\ MatrixIdle /\ FeatureIdle

FeatureClassProbabilities ==
    /\ s_impl = "none"
    /\ \E fm \in Matrices, ls \in LabelVectors, m \in MethodArgs :
        \E b \in Backgrounds(fm) :
            LET r == feature_class_probabilities(fm, ls, m, b)
            IN  /\ feature_matrix' = fm /\ labels' = ls /\ method' = m /\ bg' = b
                /\ s_impl' = "snekmer" /\ s_outcome' = r.outcome
                /\ s_error' = r.error /\ s_stage' = r.stage
                /\ results' = r.results
                /\ UNCHANGED <<kmerVars, strVars, alignVars,
                   applyVars, reduceVars, matrixVars, featureVars>>

KfFeatureClassProbabilities ==
    /\ s_impl = "none"
    /\ \E fm \in Matrices, ls \in LabelVectors :
        LET r == kf_feature_class_probabilities(fm, ls)
        IN  /\ feature_matrix' = fm /\ labels' = ls /\ method' = "default"
            /\ bg' = <<>>
            /\ s_impl' = "kmerfeatures" /\ s_outcome' = r.outcome
            /\ s_error' = r.error /\ s_stage' = r.stage
            /\ results' = r.results
            /\ UNCHANGED <<kmerVars, strVars, alignVars,
                   applyVars, reduceVars, matrixVars, featureVars>>

ReturnScore ==
    /\ s_impl # "none"
    /\ feature_matrix' = <<>> /\ labels' = <<>> /\ method' = "default" /\ bg' = <<>>
    /\ s_impl' = "none" /\ s_outcome' = "none" /\ s_error' = "none"
    /\ s_stage' = "none" /\ results' = EmptyResults
    /\ UNCHANGED <<kmerVars, strVars, alignVars,
                   applyVars, reduceVars, matrixVars, featureVars>>

NextScore == FeatureClassProbabilities \/ KfFeatureClassProbabilities \/ ReturnScore

SpecScore == InitScore /\ [][NextScore]_vars

(***************************************************************************)
(* SpecApply: calls of apply_feature_probabilities, one at a time.         *)
(***************************************************************************)
OthersIdle == KmerIdle /\ StringIdle /\ AlignIdle /\ ScoreIdle

InitApply == OthersIdle /\ ApplyIdle /\ ReduceIdle /\ MatrixIdle /\ FeatureIdle

ApplyFeatureProbabilities ==
    /\ a_outcome = "none"
    /\ \E fm \in ApplyMatrices :
        \E sc \in ScoresFor(fm) :
            LET r == apply_feature_probabilities(fm, sc)
            IN  /\ a_matrix' = fm /\ a_scores' = sc
                /\ a_outcome' = r.outcome /\ a_totals' = r.totals
                /\ UNCHANGED <<kmerVars, strVars, alignVars, scoreVars,
                               reduceVars, matrixVars, featureVars>>

ReturnApply ==
    /\ a_outcome # "none"
    /\ a_matrix' = <<>> /\ a_scores' = <<>> /\ a_outcome' = "none" /\ a_totals' = <<>>
    /\ UNCHANGED <<kmerVars, strVars, alignVars, scoreVars, reduceVars, matrixVars, featureVars>>

NextApply == ApplyFeatureProbabilities \/ ReturnApply

SpecApply == InitApply /\ [][NextApply]_vars

(***************************************************************************)
(* SpecReduce: a sequence is reduced by snekmer's reduce(sequence,         *)
(* alphabet), or mapped by kmerfeatures' map_characters with the           *)
(* alphabet's mapping; the output may be passed in again.                  *)
(***************************************************************************)
InitReduce ==
    /\ OthersIdle /\ ApplyIdle /\ MatrixIdle /\ FeatureIdle
    /\ r_alphabet \in VecAlphabets
    /\ r_impl = "none" /\ r_input = <<>> /\ r_output = <<>> /\ r_calls = 0

Reduce ==
    /\ r_impl = "none"
    /\ \E s \in ReduceSequences :
        /\ r_impl' = "snekmer" /\ r_input' = s
        /\ r_output' = reduce(s, r_alphabet) /\ r_calls' = 1
        /\ UNCHANGED <<r_alphabet, kmerVars, strVars, alignVars, scoreVars,
                       applyVars, matrixVars, featureVars>>

MapCharacters ==
    /\ r_impl = "none"
    /\ \E s \in ReduceSequences :
        /\ r_impl' = "kmerfeatures" /\ r_input' = s
        /\ r_output' = map_characters(s, get_alphabet(r_alphabet)) /\ r_calls' = 1
        /\ UNCHANGED <<r_alphabet, kmerVars, strVars, alignVars, scoreVars,
                       applyVars, matrixVars, featureVars>>

ReduceAgain ==
    /\ r_impl # "none" /\ r_calls = 1
    /\ r_input' = r_output
    /\ r_output' = IF r_impl = "snekmer"
                   THEN reduce(r_output, r_alphabet)
                   ELSE map_characters(r_output, get_alphabet(r_alphabet))
    /\ r_calls' = 2
    /\ UNCHANGED <<r_alphabet, r_impl, kmerVars, strVars, alignVars, scoreVars,
                   applyVars, matrixVars, featureVars>>

ReturnReduce ==
    /\ r_impl # "none"
    /\ r_impl' = "none" /\ r_input' = <<>> /\ r_output' = <<>> /\ r_calls' = 0
    /\ UNCHANGED <<r_alphabet, kmerVars, strVars, alignVars, scoreVars,
                   applyVars, matrixVars, featureVars>>

NextReduce == Reduce \/ MapCharacters \/ ReduceAgain \/ ReturnReduce

SpecReduce == InitReduce /\ [][NextReduce]_vars

(***************************************************************************)
(* SpecMatrix: calls of make_feature_matrix, one at a time.                *)
(***************************************************************************)
InitMatrix == OthersIdle /\ ApplyIdle /\ ReduceIdle /\ MatrixIdle /\ FeatureIdle

MakeFeatureMatrix ==
    /\ m_outcome = "none"
    /\ \E vecs \in VecLists, mn \in Filters, mx \in Filters :
        LET r == make_feature_matrix(vecs, mn, mx)
        IN  /\ m_vecs' = vecs /\ m_min_filter' = mn /\ m_max_filter' = mx
            /\ m_outcome' = r.outcome
            /\ m_result' = r.result /\ m_kmerlist' = r.kmerlist
            /\ UNCHANGED <<kmerVars, strVars, alignVars, scoreVars,
                           applyVars, reduceVars, featureVars>>

ReturnMatrix ==
    /\ m_outcome # "none"
    /\ m_vecs' = <<>> /\ m_min_filter' = 1 /\ m_max_filter' = 1
    /\ m_outcome' = "none" /\ m_result' = <<>> /\ m_kmerlist' = <<>>
    /\ UNCHANGED <<kmerVars, strVars, alignVars, scoreVars, applyVars, reduceVars, featureVars>>

NextMatrix == MakeFeatureMatrix \/ ReturnMatrix

SpecMatrix == InitMatrix /\ [][NextMatrix]_vars

(***************************************************************************)
(* SpecNonPositiveK: the vectorizers are used with a k that is not         *)
(* positive: a KmerVec(alphabet, k) whose vectorize and reduce_vectorize   *)
(* are called (no check is made at construction), and vectorize_string     *)
(* called with such a k and a map function.                                *)
(***************************************************************************)
NonPositiveKs == {0, -1}

NonPositiveKStringArgs ==
    {[sequence |-> s, k |-> kk, start |-> 0, end |-> 0, map_function |-> mf,
      feature_dict |-> <<>>, filter_list |-> <<>>, exclude |-> <<>>,
      return_dict |-> FALSE] :
        s \in Sequences, kk \in NonPositiveKs, mf \in {"AC", "RED"}}

InitNonPositiveK ==
    /\ alphabet \in VecAlphabets
    /\ k \in NonPositiveKs
    /\ iter_order \in Perms(get_alphabet_keys(alphabet))
    /\ kmer_set = [defined |-> FALSE, arg |-> <<>>, kmerlist |-> <<>>]
    /\ op = "none" /\ sequence = <<>> /\ kmers = <<>> /\ kmer2count = <<>>
    /\ outcome = "none" /\ vector = <<>>
    /\ StringIdle /\ AlignIdle /\ ScoreIdle
    /\ ApplyIdle /\ ReduceIdle /\ MatrixIdle /\ FeatureIdle

VectorizeStringNonPositiveK ==
    /\ op = "none" /\ vs_ret.outcome = "none"
    /\ \E a \in NonPositiveKStringArgs :
        /\ vs_args' = a
        /\ vs_ret' = vectorize_string(a)
        /\ UNCHANGED <<kmerVars, alignVars, scoreVars, applyVars, reduceVars,
                       matrixVars, featureVars>>

\* One call at a time: a KmerVec call starts when no vectorize_string call
\* is pending.
VectorizeNonPositiveK == vs_ret.outcome = "none" /\ Vectorize

ReduceVectorizeNonPositiveK == vs_ret.outcome = "none" /\ ReduceVectorize

NextNonPositiveK ==
    \/ VectorizeNonPositiveK
    \/ ReduceVectorizeNonPositiveK
    \/ ReturnKmer
    \/ VectorizeStringNonPositiveK
    \/ ReturnString

SpecNonPositiveK == InitNonPositiveK /\ [][NextNonPositiveK]_vars

(***************************************************************************)
(* SpecFeatureSpace: calls of define_feature_space, one at a time, on      *)
(* dicts of up to two sequences.                                           *)
(***************************************************************************)
FeatureSequences == {<<"A", "A">>, <<"A", "C">>, <<"A", "A", "C">>}

SequenceDicts ==
    {<<>>}
    \cup {<<<<"s1", s>>>> : s \in FeatureSequences}
    \cup {<<<<"s1", s>>, <<"s2", t>>>> : s \in FeatureSequences, t \in FeatureSequences}

\* min_rep_thresh: 0, one half, 1 and the default 2.
MinRepThresholds == {<<0, 1>>, <<1, 2>>, <<1, 1>>, <<2, 1>>}

InitFeatureSpace ==
    /\ OthersIdle /\ ApplyIdle /\ ReduceIdle /\ MatrixIdle /\ FeatureIdle

DefineFeatureSpace ==
    /\ f_outcome = "none"
    /\ \E sd \in SequenceDicts, kk \in 1..MaxK, mf \in {"None", "AC"},
          thr \in MinRepThresholds :
        LET r == define_feature_space(sd, kk, mf, thr)
        IN  /\ f_sequence_dict' = sd /\ f_kmer' = kk /\ f_map_function' = mf
            /\ f_min_rep_thresh' = thr
            /\ f_outcome' = r.outcome /\ f_filter_dict' = r.filter_dict
            /\ UNCHANGED <<kmerVars, strVars, alignVars, scoreVars,
                           applyVars, reduceVars, matrixVars>>

ReturnFeatureSpace ==
    /\ f_outcome # "none"
    /\ f_sequence_dict' = <<>> /\ f_kmer' = 1 /\ f_map_function' = "None"
    /\ f_min_rep_thresh' = <<2, 1>> /\ f_outcome' = "none" /\ f_filter_dict' = <<>>
    /\ UNCHANGED <<kmerVars, strVars, alignVars, scoreVars,
                   applyVars, reduceVars, matrixVars>>

NextFeatureSpace == DefineFeatureSpace \/ ReturnFeatureSpace

SpecFeatureSpace == InitFeatureSpace /\ [][NextFeatureSpace]_vars

(***************************************************************************)
(*                               The claims                                *)
(***************************************************************************)
AA == <<"A", "A">>
AC == <<"A", "C">>
CA == <<"C", "A">>
CC == <<"C", "C">>

\* The basis the process holds, when one was generated: the list a KmerSet
\* built with no kmerlist, and the list a direct _generate call produced.
GeneratedBases ==
    (IF kmer_set.defined /\ kmer_set.arg = <<>> THEN {kmer_set.kmerlist} ELSE {})
    \cup (IF op = "_generate" THEN {kmers} ELSE {})

\* C1 (SpecBasis): a generated basis for (A, k) has |class set of A|^k
\* elements, no element twice, and every element is a string of length k
\* over A's class set.
C1_BasisIsFullProduct ==
    \A b \in GeneratedBases :
        /\ Len(b) = Pow(Cardinality(get_alphabet_keys(alphabet)), k)
        /\ IsInjective(b)
        /\ \A i \in 1..Len(b) :
              Len(b[i]) = k /\ Range(b[i]) \subseteq get_alphabet_keys(alphabet)

C1_Witness ==
    /\ kmer_set.defined /\ kmer_set.arg = <<>>
    /\ alphabet = "ACG" /\ k = 2
    /\ Len(kmer_set.kmerlist) = 9

\* C2 (SpecBasis), as claimed: a generated basis is the lexicographic product
\* over the class characters in their canonical (sorted) order; for the
\* class set {A, C} and k = 2 it is [AA, AC, CA, CC].
C2_CanonicalProductOrder ==
    \A b \in GeneratedBases :
        /\ b = _generate(SortedChars(get_alphabet_keys(alphabet)), k)
        /\ (alphabet = "AC" /\ k = 2) => b = <<AA, AC, CA, CC>>

\* The number of offsets i in 0..len(s)-k whose window s[i..i+k) lies in cs.
ValidWindows(s, kk, cs) ==
    {i \in 0..(Len(s) - kk) : Range(SubSeq(s, i + 1, i + kk)) \subseteq cs}

\* The number of valid windows of s that are equal to kmer.
WindowsEqual(s, kk, cs, kmer) ==
    Cardinality({i \in ValidWindows(s, kk, cs) : SubSeq(s, i + 1, i + kk) = kmer})

\* C3 (SpecKmer): the number of k-mers _kmer_gen yields for s, and the total
\* of the counts KmerVec makes of them, is the number of offsets whose
\* window consists only of class characters; windows with a foreign
\* character are skipped.
C3_CountsValidWindows ==
    (op \in {"vectorize", "reduce_vectorize"}) =>
        LET s == IF op = "vectorize" THEN sequence ELSE reduce(sequence, alphabet)
            n == Cardinality(ValidWindows(s, k, get_alphabet_keys(alphabet)))
        IN  /\ Len(kmers) = n
            /\ (op = "vectorize") =>
                   SeqSum([i \in 1..Len(kmer2count) |-> kmer2count[i][2]]) = n

C3_Witness ==
    /\ op = "vectorize" /\ alphabet = "AC" /\ k = 2
    /\ sequence = <<"A", "A", "X", "A", "C">>
    /\ kmers = <<AA, AC>>

\* C4 (SpecKmer), as claimed: with a basis supplied, KmerVec.vectorize
\* returns one slot per basis k-mer, in basis order, holding the number of
\* valid windows equal to that k-mer (0 when it was never observed); for
\* basis [AA, AC, CA, CC] and sequence AACAC the result is [1, 2, 1, 0].
C4_DenseVectorOverBasis ==
    (op = "vectorize" /\ kmer_set.defined /\ kmer_set.arg # <<>>) =>
        /\ outcome = "ok"
        /\ Len(vector) = Len(kmer_set.kmerlist)
        /\ \A i \in 1..Len(vector) :
              vector[i] = WindowsEqual(sequence, k, get_alphabet_keys(alphabet),
                                       kmer_set.kmerlist[i])

\* C4 for vectorize_string (SpecString), as claimed: with a filter_list the
\* value returned has one slot per filter k-mer holding the number of valid
\* windows equal to it.
C4_FilterListVector ==
    (vs_ret.outcome = "ok" /\ vs_args.filter_list # <<>>) =>
        /\ Len(vs_ret.value) = Len(vs_args.filter_list)
        /\ \A i \in 1..Len(vs_ret.value) :
              vs_ret.value[i] =
                  WindowsEqual(vs_args.sequence, vs_args.k,
                               DOMAIN get_alphabet(vs_args.map_function),
                               vs_args.filter_list[i])

\* C5 (SpecAlign): a transform that returns gives every vector exactly
\* len(basis) slots, and slot i holds the value the input had at the
\* position of basis[i] in vector_basis.
C5_TransformAligns ==
    (t_outcome = "ok") =>
        /\ Len(t_result) = Len(t_vector)
        /\ \A r \in 1..Len(t_result) :
              /\ Len(t_result[r]) = Len(basis)
              /\ \A i \in 1..Len(basis), j \in 1..Len(t_vector_basis) :
                    t_vector_basis[j] = basis[i] => t_result[r][i] = t_vector[r][j]

C5_Witness ==
    /\ t_outcome = "ok" /\ t_ndim = 2
    /\ basis = <<AC, AA>> /\ t_vector_basis = <<AA, AC>>
    /\ t_vector = <<<<1, 2>>, <<0, 1>>>>
    /\ t_result = <<<<2, 1>>, <<1, 0>>>>

\* C6 (SpecAlign), as claimed: when a k-mer of the basis does not occur in
\* vector_basis, transform returns, and the slot of that k-mer is 0.
C6_MissingKmerZeroFilled ==
    (/\ t_outcome # "none"
     /\ ~shape_mismatch(t_vector, t_ndim, t_vector_basis)
     /\ \E i \in 1..Len(basis) : basis[i] \notin Range(t_vector_basis)) =>
        /\ t_outcome = "ok"
        /\ \A r \in 1..Len(t_result), i \in 1..Len(basis) :
              basis[i] \notin Range(t_vector_basis) => t_result[r][i] = 0

\* C7 (SpecAlign): round trip: transform(v, basis), with the fitted basis as
\* the source order and len(v) = len(basis), returns v slot for slot.
C7_RoundTrip ==
    (/\ t_outcome # "none"
     /\ t_vector_basis = basis
     /\ \A r \in 1..Len(t_vector) : Len(t_vector[r]) = Len(basis)) =>
        t_outcome = "ok" /\ t_result = t_vector

C7_Witness ==
    /\ t_outcome = "ok" /\ t_ndim = 1
    /\ basis = <<AC, AA>> /\ t_vector_basis = basis
    /\ t_vector = <<<<1, 2>>>> /\ t_result = <<<<1, 2>>>>

\* C8 (SpecAlign): whenever the vector's k-mer dimension differs from
\* len(vector_basis), transform raises the shape-mismatch ValueError, before
\* any lookup of a basis k-mer, and returns nothing.
C8_ShapeMismatchRaises ==
    (t_outcome # "none" /\ Len(t_vector[1]) # Len(t_vector_basis)) =>
        t_outcome = "ValueError" /\ t_result = <<>>

C8_Witness ==
    /\ t_outcome = "ValueError" /\ t_ndim = 2
    /\ basis = <<AA, CA>> /\ t_vector_basis = <<AA>>
    /\ t_vector = <<<<1, 2>>, <<0, 1>>>>

\* The columns that carry label l, and those of them in which row r is > 0.
ColumnsOf(l) == {c \in 1..Len(labels) : labels[c] = l}
PresentIn(l, r) == {c \in ColumnsOf(l) : feature_matrix[r][c] > 0}

\* C9 (SpecScore): snekmer's feature_class_probabilities reports, for every
\* label L and row k, count = the number of columns labelled L in which row
\* k is > 0, and probability = count / n_L with L's own n_L.
C9_CountAndProbability ==
    (s_impl = "snekmer" /\ s_outcome = "ok") =>
        /\ DOMAIN results = Range(labels)
        /\ \A l \in Range(labels), r \in 1..Len(feature_matrix) :
              /\ results[l].count[r] = Cardinality(PresentIn(l, r))
              /\ results[l].probability[r][1] * Cardinality(ColumnsOf(l))
                     = Cardinality(PresentIn(l, r)) * results[l].probability[r][2]

C9_Witness ==
    /\ s_impl = "snekmer" /\ s_outcome = "ok"
    /\ labels = <<"fam", "other", "fam">>
    /\ feature_matrix = <<<<2, 1, 0>>>>
    /\ results["fam"].count = <<1>>
    /\ results["fam"].probability = <<<<1, 2>>>>
    /\ results["other"].probability = <<<<1, 1>>>>

\* Whether score is probability_l - (1/(n-1)) * (the sum of the other labels'
\* probabilities) at row r, with every probability taken as count / n_L.
\* Multiplied out by d = (n - 1) * (the product of all n_L):
\*   score * d = count_l * (d / n_l) - sum over O # l of count_O * (d / n_O) / (n - 1)
RECURSIVE ProdOfSizes(_)
ProdOfSizes(S) ==
    IF S = {} THEN 1
    ELSE LET x == CHOOSE y \in S : TRUE
         IN  Cardinality(ColumnsOf(x)) * ProdOfSizes(S \ {x})

RECURSIVE SumOfTerms(_, _, _)
SumOfTerms(S, r, P) ==
    IF S = {} THEN 0
    ELSE LET x == CHOOSE y \in S : TRUE
         IN  Cardinality(PresentIn(x, r)) * (P \div Cardinality(ColumnsOf(x)))
                 + SumOfTerms(S \ {x}, r, P)

IsContrast(sc, l, r) ==
    LET L  == Range(labels)
        P  == ProdOfSizes(L)
        d  == (Cardinality(L) - 1) * P
    IN  sc[1] * d = (SumOfTerms({l}, r, P) * (Cardinality(L) - 1)
                         - SumOfTerms(L \ {l}, r, P)) * sc[2]

ScoreIsContrast(l, r) == IsContrast(results[l].score[r], l, r)

\* C10 (SpecScore), as claimed: in both packages, with method "default" and
\* n >= 2 distinct labels, the score of label L at a k-mer is probability_L
\* minus 1/(n-1) times the sum of the probabilities of all other labels; for
\* matrix [[1,0],[0,1]] and labels (fam, other) fam scores 1.0 and -1.0.
C10_DefaultScoreAllOthers ==
    (s_impl # "none" /\ s_outcome = "ok" /\ method = "default") =>
        /\ \A l \in Range(labels), r \in 1..Len(feature_matrix) : ScoreIsContrast(l, r)
        /\ (feature_matrix = <<<<1, 0>>, <<0, 1>>>> /\ labels = <<"fam", "other">>) =>
               results["fam"].score = <<<<1, 1>>, <<-1, 1>>>>

\* C10 restricted to snekmer's feature_class_probabilities.
C10_SnekmerDefaultScore ==
    (s_impl = "snekmer") => C10_DefaultScoreAllOthers

\* Whether the fraction x is the fraction y minus the fraction z.
IsDifference(x, y, z) ==
    x[1] * y[2] * z[2] = (y[1] * z[2] - z[1] * y[2]) * x[2]

\* A call of snekmer's feature_class_probabilities, with a background, that
\* returned a table.
ScoredWithBackground(mth) ==
    s_impl = "snekmer" /\ method = mth /\ bg # <<>> /\ s_outcome = "ok"

\* C11 (SpecScore), as claimed: with method "bg_only" and a background, the
\* score of label L at a k-mer is probability_L minus the background
\* probability of the k-mer; the other labels do not contribute.
C11_BgOnlyScore ==
    ScoredWithBackground("bg_only") =>
        \A l \in Range(labels), r \in 1..Len(feature_matrix) :
            IsDifference(results[l].score[r], results[l].probability[r], bg[r])

\* C12 (SpecScore), as claimed: with method "both" and a background, the
\* score of label L at a k-mer is the "default" score (probability_L minus
\* 1/(n-1) times the sum of the other labels' probabilities) minus the
\* background probability of the k-mer.
C12_BothScore ==
    ScoredWithBackground("both") =>
        \A l \in Range(labels), r \in 1..Len(feature_matrix) :
            LET sc == results[l].score[r]
            IN  IsContrast(<<sc[1] * bg[r][2] + bg[r][1] * sc[2], sc[2] * bg[r][2]>>,
                           l, r)

\* The sum over the labels in S of the count reported at row r.
RECURSIVE SumOfCounts(_, _)
SumOfCounts(S, r) ==
    IF S = {} THEN 0
    ELSE LET x == CHOOSE y \in S : TRUE
         IN  results[x].count[r] + SumOfCounts(S \ {x}, r)

\* C13 (SpecScore): partition law: at every k-mer row, the counts reported
\* for the distinct labels add up to the number of columns in which the row
\* is > 0.
C13_PartitionLaw ==
    (s_impl = "snekmer" /\ s_outcome = "ok") =>
        \A r \in 1..Len(feature_matrix) :
            SumOfCounts(Range(labels), r)
                = Cardinality({c \in 1..Len(labels) : feature_matrix[r][c] > 0})

C13_Witness ==
    /\ s_impl = "snekmer" /\ s_outcome = "ok"
    /\ labels = <<"fam", "other", "third">>
    /\ feature_matrix = <<<<2, 0, 1>>>>
    /\ results["fam"].count = <<1>>
    /\ results["other"].count = <<0>>
    /\ results["third"].count = <<1>>

\* C14 (SpecScore), as claimed: when every column carries the same label,
\* feature_class_probabilities (of either package) fails, returns no table,
\* and fails during the validation at the start of the call, before presence
\* and probability are computed.
C14_SingleClassRejectedEagerly ==
    (/\ s_impl # "none"
     /\ Len(labels) = n_columns(feature_matrix)
     /\ Cardinality(Range(labels)) = 1) =>
        /\ s_outcome # "ok"
        /\ results = EmptyResults
        /\ s_stage = "validate"

\* C15 (SpecScore): snekmer's feature_class_probabilities raises the
\* missing-background error exactly when method is "bg_only" or "both" and
\* no background is given (never with "default"), and it does so during
\* validation, with no table.
C15_MissingBackground ==
    (s_impl = "snekmer") =>
        /\ (s_error = "background")
              <=> (method \in {"bg_only", "both"} /\ bg = <<>>)
        /\ (s_error = "background") =>
              /\ s_outcome = "ValueError"
              /\ s_stage = "validate"
              /\ results = EmptyResults

C15_Witness ==
    /\ s_impl = "snekmer" /\ method = "bg_only" /\ bg = <<>>
    /\ labels = <<"fam", "other">> /\ feature_matrix = <<<<1, 0>>, <<0, 1>>>>
    /\ s_outcome = "ValueError" /\ s_error = "background"

\* C16 (SpecScore): whenever the number of labels differs from the number
\* of matrix columns, feature_class_probabilities (of either package) raises
\* ValueError during validation and produces no table; the error is the
\* shape-mismatch one unless the method or the background was refused first.
C16_LabelShapeMismatch ==
    (s_impl # "none" /\ Len(labels) # n_columns(feature_matrix)) =>
        /\ s_outcome = "ValueError"
        /\ s_stage = "validate"
        /\ results = EmptyResults
        /\ (\/ s_impl = "kmerfeatures"
            \/ (method \in Methods /\ ~(method \in {"bg_only", "both"} /\ bg = <<>>)))
              => s_error = "shapes"

C16_Witness ==
    /\ s_impl = "snekmer" /\ method = "default"
    /\ labels = <<"fam", "other", "fam">> /\ feature_matrix = <<<<1, 0>>, <<0, 1>>>>
    /\ s_outcome = "ValueError" /\ s_error = "shapes"

\* C17 (SpecApply), as claimed: for a matrix of n k-mer rows and m sequence
\* columns and n scores, apply_feature_probabilities returns m totals, and
\* total j is the sum over the k-mers k of scores[k] * [matrix[k][j] > 0];
\* also when n # m.
C17_PerColumnTotals ==
    (a_outcome # "none" /\ Len(a_scores) = Len(a_matrix)) =>
        /\ a_outcome = "ok"
        /\ Len(a_totals) = n_columns(a_matrix)
        /\ \A j \in 1..Len(a_totals) :
              a_totals[j] = SeqSum([kk \in 1..Len(a_matrix) |->
                                      IF a_matrix[kk][j] > 0 THEN a_scores[kk] ELSE 0])

\* The reduction the claim describes: one trailing "*" is removed, a mapped
\* character is replaced by its class character, any other is dropped.
DropUnmapped(s, a) ==
    LET F[i \in 0..Len(s)] ==
            IF i = 0 THEN <<>>
            ELSE IF s[i] \in DOMAIN get_alphabet(a)
                 THEN Append(F[i - 1], get_alphabet(a)[s[i]])
                 ELSE F[i - 1]
    IN  F[Len(s)]

ReducedAsClaimed(s, a) ==
    DropUnmapped(IF s # <<>> /\ s[Len(s)] = "*" THEN SubSeq(s, 1, Len(s) - 1) ELSE s, a)

\* C18 (SpecReduce), as claimed: the reduced sequence is the input without a
\* trailing "*", with every mapped character replaced by its class character
\* and every unmapped character dropped, so it holds class characters only.
C18_ReduceDropsUnmapped ==
    (r_impl # "none" /\ r_calls = 1) =>
        /\ r_output = ReducedAsClaimed(r_input, r_alphabet)
        /\ Range(r_output) \subseteq get_alphabet_keys(r_alphabet)

\* C18 restricted to kmerfeatures' map_characters.
C18_MapCharactersDropsUnmapped ==
    (r_impl = "kmerfeatures") => C18_ReduceDropsUnmapped

C20_KmerOrderIsSortedUnion ==
    (m_outcome = "ok") =>
        /\ Range(m_kmerlist) = UNION {Range(m_vecs[i]) : i \in 1..Len(m_vecs)}
        /\ \A i \in 1..Len(m_kmerlist), j \in 1..Len(m_kmerlist) :
              i < j => StrLess(m_kmerlist[i], m_kmerlist[j])

C20_Witness ==
    /\ m_outcome = "ok"
    /\ m_vecs = <<<<CA, CA>>, <<AC, AA>>>>
    /\ m_kmerlist = <<AA, AC, CA>>

\* C21 (SpecMatrix): the matrix make_feature_matrix returns has one row per
\* input collection, in input order, and one column per k-mer of the
\* returned order, which holds every contributed k-mer; entry (i, j) is 1
\* when collection i contains k-mer j and 0 otherwise, every column has a 1,
\* and min_filter and max_filter change nothing.
C21_PresenceMatrix ==
    (m_outcome = "ok") =>
        LET union == UNION {Range(m_vecs[i]) : i \in 1..Len(m_vecs)}
        IN  /\ Len(m_result) = Len(m_vecs)
            /\ \A i \in 1..Len(m_result) :
                  /\ Len(m_result[i]) = Len(m_kmerlist)
                  /\ Len(m_result[i]) = Cardinality(union)
                  /\ \A j \in 1..Len(m_kmerlist) :
                        m_result[i][j] =
                            IF m_kmerlist[j] \in Range(m_vecs[i]) THEN 1 ELSE 0
            /\ \A j \in 1..Len(m_kmerlist) :
                  \E i \in 1..Len(m_result) : m_result[i][j] = 1

C21_Witness ==
    /\ m_outcome = "ok" /\ m_min_filter = 2 /\ m_max_filter = 1
    /\ m_vecs = <<<<CA, CA>>, <<AC, CA>>>>
    /\ m_kmerlist = <<AC, CA>>
    /\ m_result = <<<<0, 1>>, <<1, 1>>>>

\* C22 (SpecKmer), as claimed: for a sequence shorter than k, _kmer_gen
\* yields nothing and KmerVec.vectorize returns, without raising, a zero for
\* every basis slot.
C22_ShortSequenceZeroVector ==
    (op = "vectorize" /\ kmer_set.defined /\ Len(sequence) < k) =>
        /\ kmers = <<>>
        /\ outcome = "ok"
        /\ Len(vector) = Len(kmer_set.kmerlist)
        /\ \A i \in 1..Len(vector) : vector[i] = 0

\* C22, the part about _kmer_gen alone: a sequence shorter than k yields no
\* k-mer.
C22_KmerGenYieldsNothing ==
    (op \in {"vectorize", "reduce_vectorize"} /\ Len(sequence) < k) => kmers = <<>>

\* C22, the part about vectorize_string (SpecString), called with a map
\* function: a sequence shorter than k gives no counts and no error.
C22_StringNoCounts ==
    (/\ vs_ret.outcome # "none"
     /\ vs_args.map_function # "None"
     /\ Len(vs_args.sequence) < vs_args.k) =>
        /\ vs_ret.outcome = "ok"
        /\ \A i \in 1..Len(vs_ret.value) : vs_ret.value[i] = 0
        /\ vs_args.filter_list = <<>> => vs_ret.value = <<>>

\* C23 (SpecNonPositiveK), as claimed: vectorizing with k <= 0 fails, at the
\* start of the operation: no k-mer is yielded and no vector is returned, by
\* KmerVec and by vectorize_string.
C23_NonPositiveKRejected ==
    /\ (op \in {"vectorize", "reduce_vectorize"} /\ k <= 0) =>
          outcome # "ok" /\ kmers = <<>> /\ vector = <<>>
    /\ (vs_ret.outcome # "none" /\ vs_args.k <= 0) =>
          vs_ret.outcome # "ok" /\ vs_ret.results = <<>> /\ vs_ret.value = <<>>

\* Whether sub occurs in s, at any position.
Contains(s, sub) ==
    \E i \in 0..(Len(s) - Len(sub)) : SubSeq(s, i + 1, i + Len(sub)) = sub

\* C24 (SpecString), as claimed: with an exclusion list, vectorize_string
\* counts no k-mer that contains a forbidden substring, at whatever
\* position (position 0 and the whole k-mer included).
C24_ExcludedKmersNotCounted ==
    (vs_ret.outcome = "ok") =>
        \A e \in 1..Len(vs_ret.results) :
            vs_ret.results[e][2] > 0 =>
                \A b \in 1..Len(vs_args.exclude) :
                    ~Contains(vs_ret.results[e][1], vs_args.exclude[b])

\* C24, the part the code keeps: a k-mer that contains a forbidden substring
\* but does not begin with it is not counted.
C24_ExcludedUnlessPrefix ==
    (vs_ret.outcome = "ok") =>
        \A e \in 1..Len(vs_ret.results) :
            vs_ret.results[e][2] > 0 =>
                \A b \in 1..Len(vs_args.exclude) :
                    LET key == vs_ret.results[e][1]
                        bit == vs_args.exclude[b]
                    IN  Contains(key, bit) => SubSeq(key, 1, Len(bit)) = bit

\* C25 (SpecString), as claimed: with default start and end, no filter and
\* no exclusion, vectorize_string counts the window at every offset from 0
\* to len(sequence) - k inclusive: the counts add up to the number of
\* windows whose characters are all mapped, the last one included.
C25_AllWindowsCounted ==
    (/\ vs_ret.outcome = "ok"
     /\ vs_args.start = 0 /\ vs_args.end = 0
     /\ vs_args.filter_list = <<>> /\ vs_args.exclude = <<>>) =>
        SeqSum(vs_ret.value)
            = Cardinality(ValidWindows(vs_args.sequence, vs_args.k,
                                       DOMAIN get_alphabet(vs_args.map_function)))

\* C25, what the code does instead: the window at offset len(sequence) - k
\* is never examined.
C25_LastWindowDropped ==
    (/\ vs_ret.outcome = "ok"
     /\ vs_args.start = 0 /\ vs_args.end = 0
     /\ vs_args.filter_list = <<>> /\ vs_args.exclude = <<>>) =>
        SeqSum(vs_ret.value)
            = Cardinality(ValidWindows(vs_args.sequence, vs_args.k,
                                       DOMAIN get_alphabet(vs_args.map_function))
                          \ {Len(vs_args.sequence) - vs_args.k})


(***************************************************************************)
(* C26: materializing the full basis is opt-in: a KmerSet constructed      *)
(* (here through KmerVec.set_kmer_set) without an explicit k-mer list      *)
(* holds no basis list.  KmerSet has no argument that asks for the list;   *)
(* it builds all |alphabet|^k k-mers whenever kmerlist is empty.           *)
(***************************************************************************)
C26_MaterializationOptIn ==
    (kmer_set.defined /\ kmer_set.arg = <<>>) => kmer_set.kmerlist = <<>>

\* What the code does instead: without a list, the full basis is built.
C26_EmptyListBuildsFullBasis ==
    (kmer_set.defined /\ kmer_set.arg = <<>>)
        => Len(kmer_set.kmerlist) = Pow(Len(iter_order), k)


(***************************************************************************)
(* C27 (SpecScore): scoring depends only on presence.  PresenceOf(M) is    *)
(* the claim's B: B[k][j] = 1 if M[k][j] > 0 else 0.  Whatever the call on *)
(* M left behind (the table of counts, probabilities and scores, or the    *)
(* exception), the call on B with the same labels leaves the same.         *)
(***************************************************************************)
PresenceOf(M) ==
    [r \in 1..Len(M) |-> [c \in 1..Len(M[r]) |-> IF M[r][c] > 0 THEN 1 ELSE 0]]

C27_ScoringDependsOnPresenceOnly ==
    /\ s_impl = "snekmer" =>
         LET onB == feature_class_probabilities(PresenceOf(feature_matrix),
                                                labels, method, bg)
         IN  onB.results = results /\ onB.outcome = s_outcome
    /\ s_impl = "kmerfeatures" =>
         LET onB == kf_feature_class_probabilities(PresenceOf(feature_matrix),
                                                   labels)
         IN  onB.results = results /\ onB.outcome = s_outcome

\* A matrix of raw counts (an entry 2) was scored, and the column with the
\* count 2 was counted once for its label.
C27_Witness ==
    /\ s_impl = "snekmer" /\ s_outcome = "ok"
    /\ feature_matrix = <<<<2, 0>>, <<1, 2>>>>
    /\ labels = <<"fam", "other">>
    /\ results["fam"].count = <<1, 1>>
    /\ results["other"].count = <<0, 1>>
    /\ results["fam"].score = <<<<1, 1>>, <<0, 1>>>>

\* The same for the older package.
C27_WitnessKmerfeatures ==
    /\ s_impl = "kmerfeatures" /\ s_outcome = "ok"
    /\ feature_matrix = <<<<2, 0>>, <<1, 2>>>>
    /\ labels = <<"fam", "other">>
    /\ results["fam"].presence = <<<<1, 0>>, <<1, 0>>>>
    /\ results["other"].probability = <<<<0, 1>>, <<1, 1>>>>


(***************************************************************************)
(* C28 (SpecFeatureSpace): define_feature_space accumulates the k-mer      *)
(* counts over all sequences and returns exactly the k-mers whose          *)
(* cumulative count is >= min_rep_thresh (all of them when the threshold   *)
(* is 0); it fails, with the empty-feature-space error, if and only if no  *)
(* k-mer survives.                                                         *)
(***************************************************************************)
\* The number of windows of s that are the k-mer km.
OccurrencesIn(s, km) ==
    Cardinality({i \in 1..(Len(s) - Len(km) + 1) : SubSeq(s, i, i + Len(km) - 1) = km})

RECURSIVE CumulativeCount(_, _)
CumulativeCount(items, km) ==
    IF items = <<>> THEN 0
    ELSE OccurrencesIn(Head(items)[2], km) + CumulativeCount(Tail(items), km)

\* The k-mers of length kk that occur in some sequence of the dict.
KmersOf(items, kk) ==
    UNION {{SubSeq(items[j][2], i, i + kk - 1) : i \in 1..(Len(items[j][2]) - kk + 1)} :
              j \in 1..Len(items)}

Survivors(items, kk, thr) ==
    {km \in KmersOf(items, kk) : CumulativeCount(items, km) * thr[2] >= thr[1]}

C28_FeatureSpaceThreshold ==
    f_outcome # "none" =>
        LET surv == Survivors(f_sequence_dict, f_kmer, f_min_rep_thresh)
        IN  IF surv = {}
            THEN f_outcome = "ValueError"
            ELSE /\ f_outcome = "ok"
                 /\ Range(f_filter_dict)
                      = {<<km, CumulativeCount(f_sequence_dict, km)>> : km \in surv}

\* What the code does instead: a dict with a sequence in it ends in the
\* TypeError of the first vectorize_string call; only the empty dict reaches
\* the threshold, and fails there.
C28_RaisesOnEverySequenceDict ==
    f_outcome # "none" =>
        f_outcome = (IF f_sequence_dict = <<>> THEN "ValueError" ELSE "TypeError")


(***************************************************************************)
(* C29 (SpecAlign): fit once, transform many.  After set_basis, whatever   *)
(* transform calls were made before, successful or failing: a transform    *)
(* call leaves basis and basis_order as they were, and what the call       *)
(* returned or raised is what transform gives for the basis as fitted and  *)
(* that call's vector and vector_basis, as they stand after the call.      *)
(***************************************************************************)
C29_FitOnceTransformMany ==
    /\ [](t_outcome # "none" =>
             transform(basis, basis_order, t_vector, t_ndim, t_vector_basis)
                 = [outcome |-> t_outcome, result |-> t_result])
    /\ [][(t_outcome = "none" /\ t_outcome' # "none") =>
             (basis' = basis /\ basis_order' = basis_order)]_vars

\* A transform that failed on a fitted basis: the basis stands as fitted.
C29_Witness ==
    /\ t_outcome = "KeyError"
    /\ basis = <<AA, CA>> /\ basis_order = set_basis_order(<<AA, CA>>)
    /\ t_vector_basis = <<AA, AC>> /\ t_vector = <<<<1, 2>>>> /\ t_ndim = 1


(***************************************************************************)
(* C30 (SpecScore): sum of contrasts is zero.  With method "default" and   *)
(* two or more distinct labels, snekmer's feature_class_probabilities      *)
(* gives, at every k-mer row, scores that add up to 0 over the distinct    *)
(* labels; and every score lies in [-1, 1].                                *)
(***************************************************************************)
ScoresAt(r) ==
    LET u == np_unique(labels)
    IN  [i \in 1..Len(u) |-> results[u[i]].score[r]]

C30_ContrastsSumToZero ==
    (s_impl = "snekmer" /\ s_outcome = "ok" /\ method = "default") =>
        \A r \in 1..Len(feature_matrix) :
            /\ RatSum(ScoresAt(r))[1] = 0
            /\ \A l \in Range(labels) :
                  Abs(results[l].score[r][1]) <= results[l].score[r][2]

\* Three labels, one row present for fam and third: 1/2, -1 and 1/2.
C30_Witness ==
    /\ s_impl = "snekmer" /\ s_outcome = "ok" /\ method = "default"
    /\ labels = <<"third", "fam", "other">>
    /\ feature_matrix = <<<<1, 2, 0>>>>
    /\ results["fam"].score = <<<<1, 2>>>>
    /\ results["other"].score = <<<<-1, 1>>>>
    /\ results["third"].score = <<<<1, 2>>>>

=============================================================================
